---- MODULE Spec2Model ----
(***************************************************************************)
(* PromptLab: the in-memory store (backend/app/storage.py), the entity     *)
(* models (backend/app/models.py) and the request handlers                 *)
(* (backend/app/api.py), as a state machine.  One action per handler; a    *)
(* handler runs from request validation to its response in one step.       *)
(* SpecConc runs two handlers at once, one action per Storage call, and    *)
(* SpecUtils calls the functions of backend/app/utils.py on lists.         *)
(*                                                                         *)
(* Representation.  Optional[T] is a set: None is {} and a value v is {v}. *)
(* Text (title, content, description, name) is a sequence of characters;   *)
(* ids are opaque strings.  A dict is the sequence of its entries          *)
(* [key, value] in insertion order.                                        *)
(***************************************************************************)
EXTENDS Integers, Sequences, FiniteSets, TLC

\* ---------------------------------------------------------------- bounds
\* ids generate_id hands out for prompts / collections within a run of Spec
MaxPrompts == 2
MaxCollections == 2
\* the same, within a run of SpecMerge
MaxMergePrompts == 1
MaxMergeCollections == 1
\* the latest instant the clock reaches within a run
MaxTime == 1
\* the same ids, within a run of SpecList
MaxListPrompts == 3
MaxListCollections == 1
\* the longest list handed to a function of utils within a run of SpecUtils
MaxListLen == 3
\* ids generate_id hands out for prompts / collections within a run of SpecConc
MaxConcPrompts == 1
MaxConcCollections == 1

\* ------------------------------------------------------ program constants
TitleMinLen == 1
TitleMaxLen == 200
ContentMinLen == 1
DescriptionMaxLen == 500
NameMinLen == 1
NameMaxLen == 100

\* ------------------------------------------------------------ Optional[T]
None == {}
Some(v) == {v}
Val(o) == CHOOSE v \in o : TRUE

\* Python truthiness of an Optional[str] holding an id: None and "" are falsy
TruthyId(o) == o # None /\ Val(o) # ""


\* ------------------------------------------------------------------ state
VARIABLES
    prompts,        \* Storage._prompts: dict id -> Prompt
    collections,    \* Storage._collections: dict id -> Collection
    now,            \* the clock get_current_time reads
    freshP,         \* the prompt ids generate_id has yet to hand out, in order
    freshC,         \* the collection ids generate_id has yet to hand out, in order
    last,           \* the request being answered and its response (history)
    threads         \* the handlers running at once, each between two Storage calls

vars == <<prompts, collections, now, freshP, freshC, last, threads>>

\* ------------------------------------------------------------ Python dict
DictHas(d, k) == \E i \in 1..Len(d) : d[i].key = k
\* d.get(k): Optional value
DictGet(d, k) == {d[i].value : i \in {j \in 1..Len(d) : d[j].key = k}}
\* d[k] = v: an existing key keeps its position, a new key goes last
DictSet(d, k, v) ==
    IF DictHas(d, k)
    THEN [i \in 1..Len(d) |-> IF d[i].key = k THEN [key |-> k, value |-> v] ELSE d[i]]
    ELSE Append(d, [key |-> k, value |-> v])
DictKeepsEntry(e, k) == e.key # k
\* del d[k]
DictDel(d, k) == SelectSeq(d, LAMBDA e : DictKeepsEntry(e, k))
\* list(d.values())
DictValues(d) == [i \in 1..Len(d) |-> d[i].value]

\* ---------------------------------------------------------------- Storage
\* mutant of Storage_create_prompt: the dict is replaced, not extended
Storage_create_prompt_Replaces(ps, prompt) == <<[key |-> prompt.id, value |-> prompt]>>
Storage_create_prompt(ps, prompt) == DictSet(ps, prompt.id, prompt)
Storage_get_prompt(ps, prompt_id) == DictGet(ps, prompt_id)
Storage_get_all_prompts(ps) == DictValues(ps)
\* mutant of Storage_update_prompt: an id that is not stored is stored
Storage_update_prompt_Upserts(ps, prompt_id, prompt) ==
    [store |-> DictSet(ps, prompt_id, prompt), result |-> Some(prompt)]
\* returns the new dict and the Optional[Prompt] result
Storage_update_prompt(ps, prompt_id, prompt) ==
    IF ~DictHas(ps, prompt_id)
    THEN [store |-> ps, result |-> None]
    ELSE [store |-> DictSet(ps, prompt_id, prompt), result |-> Some(prompt)]
\* returns the new dict and the bool result
Storage_delete_prompt(ps, prompt_id) ==
    IF DictHas(ps, prompt_id)
    THEN [store |-> DictDel(ps, prompt_id), result |-> TRUE]
    ELSE [store |-> ps, result |-> FALSE]
Storage_create_collection(cs, collection) == DictSet(cs, collection.id, collection)
Storage_get_collection(cs, collection_id) == DictGet(cs, collection_id)
Storage_get_all_collections(cs) == DictValues(cs)
\* mutant of Storage_delete_collection: True is never returned
Storage_delete_collection_ReturnsFalse(cs, collection_id) ==
    [store |-> DictDel(cs, collection_id), result |-> FALSE]
\* returns the new dict and the bool result
Storage_delete_collection(cs, collection_id) ==
    IF DictHas(cs, collection_id)
    THEN [store |-> DictDel(cs, collection_id), result |-> TRUE]
    ELSE [store |-> cs, result |-> FALSE]
\* mutant of InCollection: any prompt filed under some collection matches
InCollection_AnyCollection(p, collection_id) == TruthyId(p.collection_id)
\* p.collection_id == collection_id
InCollection(p, collection_id) == p.collection_id = Some(collection_id)
Storage_get_prompts_by_collection(ps, collection_id) ==
    SelectSeq(DictValues(ps), LAMBDA p : InCollection(p, collection_id))

\* ----------------------------------------------------------------- models
\* mutant of generate_id: the same id every time
generate_id_Fixed(fresh) == "p1"
\* generate_id: uuid4 never repeats, it hands out the next unused id
generate_id(fresh) == Head(fresh)
\* mutant of get_current_time_after: the second reading may be an earlier one
get_current_time_after_Any(t) == 0..MaxTime
\* get_current_time at a later point of the same handler: the clock has not
\* run backwards since it read t
get_current_time_after(t) == {u \in 0..MaxTime : u >= t}

\* Field constraints of PromptBase (PromptCreate, PromptUpdate)
ValidPromptBase(b) ==
    /\ Len(b.title) >= TitleMinLen /\ Len(b.title) <= TitleMaxLen
    /\ Len(b.content) >= ContentMinLen
    /\ (b.description # None => Len(Val(b.description)) <= DescriptionMaxLen)
\* Field constraints of PromptPatch
ValidPromptPatch(b) ==
    /\ (b.title # None =>
            Len(Val(b.title)) >= TitleMinLen /\ Len(Val(b.title)) <= TitleMaxLen)
    /\ (b.content # None => Len(Val(b.content)) >= ContentMinLen)
    /\ (b.description # None => Len(Val(b.description)) <= DescriptionMaxLen)
\* Field constraints of CollectionBase (CollectionCreate)
ValidCollectionBase(b) ==
    /\ Len(b.name) >= NameMinLen /\ Len(b.name) <= NameMaxLen
    /\ (b.description # None => Len(Val(b.description)) <= DescriptionMaxLen)

\* Prompt(...): the stored entity
Prompt(id, title, content, description, collection_id, created_at, updated_at) ==
    [id |-> id, title |-> title, content |-> content, description |-> description,
     collection_id |-> collection_id, created_at |-> created_at,
     updated_at |-> updated_at]
\* Collection(...): the stored entity
Collection(id, name, description, created_at) ==
    [id |-> id, name |-> name, description |-> description, created_at |-> created_at]

\* ------------------------------------------------------------------ utils
\* str.lower() of one character, over the characters the inputs are made of
LowerChar(c) == CASE c = "A" -> "a" [] c = "B" -> "b" [] OTHER -> c
\* s.lower()
lower(s) == [i \in 1..Len(s) |-> LowerChar(s[i])]
\* x in y, for two strings
Contains(x, y) == \E i \in 0..(Len(y) - Len(x)) : SubSeq(y, i + 1, i + Len(x)) = x
\* Python truthiness of an Optional[str] holding text
TruthyText(o) == o # None /\ Val(o) # <<>>

Reverse(l) == [i \in 1..Len(l) |-> l[Len(l) + 1 - i]]
\* p put into a list sorted by created_at, behind every element that does
\* not come after it
InsertByDate(sorted, p) ==
    LET k == Cardinality({i \in 1..Len(sorted) : sorted[i].created_at <= p.created_at})
    IN SubSeq(sorted, 1, k) \o <<p>> \o SubSeq(sorted, k + 1, Len(sorted))
\* sorted(l, key=created_at): a stable sort
RECURSIVE StableSortByDate(_)
StableSortByDate(l) ==
    IF l = <<>> THEN <<>>
    ELSE InsertByDate(StableSortByDate(SubSeq(l, 1, Len(l) - 1)), l[Len(l)])
\* mutant of sort_prompts_by_date: descending is the ascending order reversed
sort_prompts_by_date_Reversed(ps, descending) ==
    IF descending THEN Reverse(StableSortByDate(ps)) ELSE StableSortByDate(ps)
\* sorted(prompts, key=created_at, reverse=descending): with reverse the list is
\* reversed, sorted and reversed again, which keeps equal keys in input order
sort_prompts_by_date(ps, descending) ==
    IF descending THEN Reverse(StableSortByDate(Reverse(ps))) ELSE StableSortByDate(ps)

filter_prompts_by_collection(ps, collection_id) ==
    SelectSeq(ps, LAMBDA p : p.collection_id = Some(collection_id))

\* mutant of SearchMatches: the texts are compared as they are
SearchMatches_CaseSensitive(p, query_lower) ==
    \/ Contains(query_lower, p.title)
    \/ (TruthyText(p.description) /\ Contains(query_lower, Val(p.description)))
\* mutant of SearchMatches: a prompt with no description is left out
SearchMatches_NeedsDescription(p, query_lower) ==
    /\ TruthyText(p.description)
    /\ \/ Contains(query_lower, lower(p.title))
       \/ Contains(query_lower, lower(Val(p.description)))
\* the condition of search_prompts' comprehension
SearchMatches(p, query_lower) ==
    \/ Contains(query_lower, lower(p.title))
    \/ (TruthyText(p.description) /\ Contains(query_lower, lower(Val(p.description))))
search_prompts(ps, query) ==
    LET query_lower == lower(query)
    IN SelectSeq(ps, LAMBDA p : SearchMatches(p, query_lower))

\* --------------------------------------------------------------- requests
EmptyText == <<>>
NoBody == <<>>
NoId == ""
PatchFields == {"title", "content", "description", "collection_id"}

\* the request answered (op, id, body), the response's status, and the store
\* and clock the handler found
Response(op, status, id, body) ==
    [op |-> op, status |-> status, id |-> id, body |-> body,
     before |-> [prompts |-> prompts, collections |-> collections, now |-> now]]
\* no request is being answered
Idle == [op |-> "idle", status |-> 0, id |-> NoId, body |-> NoBody, before |-> NoBody]
IsIdle == last.op = "idle"
\* the same for a request whose answer is a list: the query and the list
Listing(op, query, result) ==
    [op |-> op, status |-> 200, id |-> NoId, body |-> query, result |-> result,
     before |-> [prompts |-> prompts, collections |-> collections, now |-> now]]

\* the handlers that run at once: the server answers two requests at a time
Threads == {"t1", "t2"}
\* a thread that runs no handler
IdleThread ==
    [op |-> "idle", pc |-> "idle", status |-> 0, id |-> NoId, body |-> NoBody,
     existing |-> None, listed |-> <<>>]
NoThreads == [t \in Threads |-> IdleThread]

\* mutant of CollectionMissing: the reference is not checked
CollectionMissing_Never(cs, collection_id) == FALSE
\* the handlers' referential check: a truthy collection_id must resolve
CollectionMissing(cs, collection_id) ==
    TruthyId(collection_id) /\ Storage_get_collection(cs, Val(collection_id)) = None

\* --------------------------------------------------------------- handlers
\* mutant of list_filter: the collection filter is not applied
list_filter_Skipped(ps, collection_id) == ps
\* list_prompts: filter by collection if specified
list_filter(ps, collection_id) ==
    IF TruthyId(collection_id)
    THEN filter_prompts_by_collection(ps, Val(collection_id)) ELSE ps
\* list_prompts: search if a query is provided
list_search(ps, search) ==
    IF TruthyText(search) THEN search_prompts(ps, Val(search)) ELSE ps

\* GET /prompts
list_prompts(collection_id, search) ==
    LET all == Storage_get_all_prompts(prompts)
        listed == sort_prompts_by_date(
                      list_search(list_filter(all, collection_id), search), TRUE)
    IN /\ IsIdle
       /\ UNCHANGED threads
       /\ last' = Listing("list_prompts",
                          [collection_id |-> collection_id, search |-> search],
                          [prompts |-> listed, total |-> Len(listed)])
       /\ UNCHANGED <<prompts, collections, now, freshP, freshC>>

\* GET /collections
list_collections ==
    LET all == Storage_get_all_collections(collections)
    IN /\ IsIdle
       /\ UNCHANGED threads
       /\ last' = Listing("list_collections", NoBody,
                          [collections |-> all, total |-> Len(all)])
       /\ UNCHANGED <<prompts, collections, now, freshP, freshC>>

\* GET /prompts/{prompt_id}
get_prompt(prompt_id) ==
    /\ IsIdle
    /\ UNCHANGED threads
    /\ last' = Response("get_prompt",
                        IF Storage_get_prompt(prompts, prompt_id) = None THEN 404 ELSE 200,
                        prompt_id, NoBody)
    /\ UNCHANGED <<prompts, collections, now, freshP, freshC>>

\* POST /prompts
\* created_at reads the clock, then updated_at reads it again and finds t2
create_prompt(prompt_data, t2) ==
    /\ IsIdle
    /\ UNCHANGED threads
    /\ IF ~ValidPromptBase(prompt_data)
       THEN /\ last' = Response("create_prompt", 422, NoId, prompt_data)
            /\ UNCHANGED <<prompts, collections, now, freshP, freshC>>
       ELSE IF CollectionMissing(collections, prompt_data.collection_id)
       THEN /\ last' = Response("create_prompt", 400, NoId, prompt_data)
            /\ UNCHANGED <<prompts, collections, now, freshP, freshC>>
       ELSE /\ freshP # <<>>
            /\ t2 \in get_current_time_after(now)
            /\ LET prompt == Prompt(generate_id(freshP), prompt_data.title,
                                    prompt_data.content, prompt_data.description,
                                    prompt_data.collection_id, now, t2)
               IN /\ prompts' = Storage_create_prompt(prompts, prompt)
                  /\ now' = t2
                  /\ last' = Response("create_prompt", 201, prompt.id, prompt_data)
            /\ freshP' = Tail(freshP)
            /\ UNCHANGED <<collections, freshC>>

\* mutant of UpdatedPrompt: a body without description or collection_id keeps
\* the stored one
UpdatedPrompt_Merges(existing, prompt_data, t) ==
    Prompt(existing.id, prompt_data.title, prompt_data.content,
           IF prompt_data.description = None
           THEN existing.description ELSE prompt_data.description,
           IF prompt_data.collection_id = None
           THEN existing.collection_id ELSE prompt_data.collection_id,
           existing.created_at, t)
\* mutant of UpdatedPrompt: created_at is taken from the clock as well
UpdatedPrompt_Recreates(existing, prompt_data, t) ==
    Prompt(existing.id, prompt_data.title, prompt_data.content,
           prompt_data.description, prompt_data.collection_id, t, t)
\* mutant of UpdatedPrompt: updated_at is taken from the stored created_at
UpdatedPrompt_StaleTime(existing, prompt_data, t) ==
    Prompt(existing.id, prompt_data.title, prompt_data.content,
           prompt_data.description, prompt_data.collection_id,
           existing.created_at, existing.created_at)
\* the Prompt update_prompt builds from the stored one and the body, the clock
\* reading t
UpdatedPrompt(existing, prompt_data, t) ==
    Prompt(existing.id, prompt_data.title, prompt_data.content,
           prompt_data.description, prompt_data.collection_id,
           existing.created_at, t)

\* PUT /prompts/{prompt_id}
update_prompt(prompt_id, prompt_data) ==
    LET existing == Storage_get_prompt(prompts, prompt_id) IN
    /\ IsIdle
    /\ UNCHANGED threads
    /\ IF ~ValidPromptBase(prompt_data)
       THEN /\ last' = Response("update_prompt", 422, prompt_id, prompt_data)
            /\ UNCHANGED <<prompts, collections, now, freshP, freshC>>
       ELSE IF existing = None
       THEN /\ last' = Response("update_prompt", 404, prompt_id, prompt_data)
            /\ UNCHANGED <<prompts, collections, now, freshP, freshC>>
       ELSE IF CollectionMissing(collections, prompt_data.collection_id)
       THEN /\ last' = Response("update_prompt", 400, prompt_id, prompt_data)
            /\ UNCHANGED <<prompts, collections, now, freshP, freshC>>
       ELSE LET updated_prompt == UpdatedPrompt(Val(existing), prompt_data, now)
            IN /\ prompts' = Storage_update_prompt(prompts, prompt_id, updated_prompt).store
               /\ last' = Response("update_prompt", 200, prompt_id, prompt_data)
               /\ UNCHANGED <<collections, now, freshP, freshC>>

\* mutant of PatchText: a field the body sets is never applied
PatchText_Keeps(old, fields_set, field, value) == old
\* one turn of patch_prompt's loop for a text field: the new update_data[field]
PatchText(old, fields_set, field, value) ==
    IF field \in fields_set /\ value # None /\ Val(value) # EmptyText THEN Val(value) ELSE old
\* mutant of PatchOptionalText: an empty string is applied like any other
PatchOptionalText_AppliesEmpty(old, fields_set, field, value) ==
    IF field \in fields_set /\ value # None THEN value ELSE old
\* the same for description, whose stored value is Optional
PatchOptionalText(old, fields_set, field, value) ==
    IF field \in fields_set /\ value # None /\ Val(value) # EmptyText THEN value ELSE old
\* mutant of PatchCollectionId: an empty collection_id is applied too
PatchCollectionId_AppliesEmpty(old, fields_set, value) ==
    IF "collection_id" \in fields_set THEN value ELSE old
\* one turn of the loop for collection_id (the elif branch, once the reference
\* has resolved)
PatchCollectionId(old, fields_set, value) ==
    IF "collection_id" \in fields_set /\ TruthyId(value) THEN value ELSE old
\* mutant of PatchRaises: the reference is not checked
PatchRaises_Never(prompt_data, cs) == FALSE
\* whether the loop raises: the body sets a truthy collection_id that is missing
PatchRaises(prompt_data, cs) ==
    "collection_id" \in prompt_data.fields_set
        /\ CollectionMissing(cs, prompt_data.collection_id)
\* update_data when the loop ends
PatchMerge(existing, prompt_data) ==
    LET S == prompt_data.fields_set IN
    [existing EXCEPT
        !.title = PatchText(@, S, "title", prompt_data.title),
        !.content = PatchText(@, S, "content", prompt_data.content),
        !.description = PatchOptionalText(@, S, "description", prompt_data.description),
        !.collection_id = PatchCollectionId(@, S, prompt_data.collection_id)]

\* PATCH /prompts/{prompt_id}
patch_prompt(prompt_id, prompt_data) ==
    LET existing == Storage_get_prompt(prompts, prompt_id) IN
    /\ IsIdle
    /\ UNCHANGED threads
    /\ IF ~ValidPromptPatch(prompt_data)
       THEN /\ last' = Response("patch_prompt", 422, prompt_id, prompt_data)
            /\ UNCHANGED <<prompts, collections, now, freshP, freshC>>
       ELSE IF existing = None
       THEN /\ last' = Response("patch_prompt", 404, prompt_id, prompt_data)
            /\ UNCHANGED <<prompts, collections, now, freshP, freshC>>
       ELSE IF PatchRaises(prompt_data, collections)
       THEN /\ last' = Response("patch_prompt", 400, prompt_id, prompt_data)
            /\ UNCHANGED <<prompts, collections, now, freshP, freshC>>
       ELSE LET update_data == PatchMerge(Val(existing), prompt_data)
                updated_prompt == [update_data EXCEPT !.updated_at = now]
            IN /\ prompts' = Storage_update_prompt(prompts, prompt_id, updated_prompt).store
               /\ last' = Response("patch_prompt", 200, prompt_id, prompt_data)
               /\ UNCHANGED <<collections, now, freshP, freshC>>

\* DELETE /prompts/{prompt_id}
delete_prompt(prompt_id) ==
    LET r == Storage_delete_prompt(prompts, prompt_id) IN
    /\ IsIdle
    /\ UNCHANGED threads
    /\ prompts' = r.store
    /\ last' = Response("delete_prompt", IF r.result THEN 204 ELSE 404, prompt_id, NoBody)
    /\ UNCHANGED <<collections, now, freshP, freshC>>

\* GET /collections/{collection_id}
get_collection(collection_id) ==
    /\ IsIdle
    /\ UNCHANGED threads
    /\ last' = Response("get_collection",
                        IF Storage_get_collection(collections, collection_id) = None
                        THEN 404 ELSE 200,
                        collection_id, NoBody)
    /\ UNCHANGED <<prompts, collections, now, freshP, freshC>>

\* POST /collections
create_collection(collection_data) ==
    /\ IsIdle
    /\ UNCHANGED threads
    /\ IF ~ValidCollectionBase(collection_data)
       THEN /\ last' = Response("create_collection", 422, NoId, collection_data)
            /\ UNCHANGED <<prompts, collections, now, freshP, freshC>>
       ELSE /\ freshC # <<>>
            /\ LET collection == Collection(generate_id(freshC), collection_data.name,
                                            collection_data.description, now)
               IN /\ collections' = Storage_create_collection(collections, collection)
                  /\ last' = Response("create_collection", 201, collection.id,
                                      collection_data)
            /\ freshC' = Tail(freshC)
            /\ UNCHANGED <<prompts, now, freshP>>

\* mutant of DeleteEach: the cascade loop is missing
DeleteEach_NoCascade(ps, listed) == ps
\* the cascade loop of delete_collection: storage.delete_prompt for each listed prompt
RECURSIVE DeleteEach(_, _)
DeleteEach(ps, listed) ==
    IF listed = <<>> THEN ps
    ELSE DeleteEach(Storage_delete_prompt(ps, Head(listed).id).store, Tail(listed))

\* DELETE /collections/{collection_id}
delete_collection(collection_id) ==
    LET listed == Storage_get_prompts_by_collection(prompts, collection_id)
        r == Storage_delete_collection(collections, collection_id)
    IN /\ IsIdle
       /\ UNCHANGED threads
       /\ prompts' = DeleteEach(prompts, listed)
       /\ collections' = r.store
       /\ last' = Response("delete_collection", IF r.result THEN 204 ELSE 404,
                           collection_id, NoBody)
       /\ UNCHANGED <<now, freshP, freshC>>

\* ------------------------------------------------------------ environment
\* the response is sent: the server waits for the next request
respond ==
    /\ ~IsIdle
    /\ UNCHANGED threads
    /\ last' = Idle
    /\ UNCHANGED <<prompts, collections, now, freshP, freshC>>

\* time passes between two requests
tick ==
    /\ IsIdle
    /\ UNCHANGED threads
    /\ now < MaxTime
    /\ now' = now + 1
    /\ UNCHANGED <<prompts, collections, freshP, freshC, last>>

\* ----------------------------------- handlers, one Storage call at a time
\* The handlers are plain functions, which the server runs on a pool of
\* threads: two handlers interleave between their calls of Storage methods.
\* A step is one such call with the handler's own computing around it.
\* Requests come in rounds: up to one per thread, the next round once every
\* request of this one is answered; last holds the store the round found.
\* thread t stands at pc
At(t, pc) == threads[t].pc = pc
\* the thread's record as its handler starts on the request (op, id, body)
Started(op, id, body) ==
    [IdleThread EXCEPT !.op = op, !.pc = op, !.id = id, !.body = body]
\* the handler has returned or raised
Finished(th, status) == [th EXCEPT !.pc = "done", !.status = status]
\* thread t is free and the round is open: no request of it is answered yet
Free(t) == At(t, "idle") /\ \A u \in Threads : ~At(u, "done")
\* the round as a request arrives: the first request opens it
Round == IF IsIdle THEN Response("round", 0, NoId, NoBody) ELSE last
\* the ids the threads about to create a prompt will take
Reserved == Cardinality({u \in Threads : threads[u].pc = "create_prompt_create"})

\* create_prompt up to storage.get_collection
create_prompt_get_collection(t, prompt_data) ==
    LET th == Started("create_prompt", NoId, prompt_data) IN
    /\ Free(t)
    /\ Len(freshP) > Reserved
    /\ threads' = [threads EXCEPT ![t] =
            IF ~ValidPromptBase(prompt_data) THEN Finished(th, 422)
            ELSE IF CollectionMissing(collections, prompt_data.collection_id)
            THEN Finished(th, 400)
            ELSE [th EXCEPT !.pc = "create_prompt_create"]]
    /\ UNCHANGED <<prompts, collections, now, freshP, freshC>>
    /\ last' = Round

\* create_prompt: Prompt(...) and storage.create_prompt
create_prompt_create(t) ==
    LET th == threads[t]
        prompt == Prompt(generate_id(freshP), th.body.title, th.body.content,
                         th.body.description, th.body.collection_id, now, now)
    IN /\ At(t, "create_prompt_create")
       /\ prompts' = Storage_create_prompt(prompts, prompt)
       /\ freshP' = Tail(freshP)
       /\ threads' = [threads EXCEPT ![t] = Finished([th EXCEPT !.id = prompt.id], 201)]
       /\ UNCHANGED <<collections, now, freshC, last>>

\* update_prompt up to storage.get_prompt
update_prompt_get_prompt(t, prompt_id, prompt_data) ==
    LET th == Started("update_prompt", prompt_id, prompt_data)
        existing == Storage_get_prompt(prompts, prompt_id)
    IN /\ Free(t)
       /\ threads' = [threads EXCEPT ![t] =
               IF ~ValidPromptBase(prompt_data) THEN Finished(th, 422)
               ELSE IF existing = None THEN Finished(th, 404)
               ELSE [th EXCEPT !.existing = existing,
                               !.pc = "update_prompt_get_collection"]]
       /\ UNCHANGED <<prompts, collections, now, freshP, freshC>>
       /\ last' = Round

\* update_prompt: storage.get_collection
update_prompt_get_collection(t) ==
    LET th == threads[t] IN
    /\ At(t, "update_prompt_get_collection")
    /\ threads' = [threads EXCEPT ![t] =
            IF CollectionMissing(collections, th.body.collection_id)
            THEN Finished(th, 400)
            ELSE [th EXCEPT !.pc = "update_prompt_update"]]
    /\ UNCHANGED <<prompts, collections, now, freshP, freshC, last>>

\* update_prompt: Prompt(...) from the prompt read at the start, and
\* storage.update_prompt; a result of None cannot be serialised as a Prompt
update_prompt_update(t) ==
    LET th == threads[t]
        r == Storage_update_prompt(prompts, th.id,
                                   UpdatedPrompt(Val(th.existing), th.body, now))
    IN /\ At(t, "update_prompt_update")
       /\ prompts' = r.store
       /\ threads' = [threads EXCEPT ![t] =
               Finished(th, IF r.result = None THEN 500 ELSE 200)]
       /\ UNCHANGED <<collections, now, freshP, freshC, last>>

\* patch_prompt up to storage.get_prompt
patch_prompt_get_prompt(t, prompt_id, prompt_data) ==
    LET th == Started("patch_prompt", prompt_id, prompt_data)
        existing == Storage_get_prompt(prompts, prompt_id)
    IN /\ Free(t)
       /\ threads' = [threads EXCEPT ![t] =
               IF ~ValidPromptPatch(prompt_data) THEN Finished(th, 422)
               ELSE IF existing = None THEN Finished(th, 404)
               ELSE [th EXCEPT !.existing = existing,
                               !.pc = "patch_prompt_get_collection"]]
       /\ UNCHANGED <<prompts, collections, now, freshP, freshC>>
       /\ last' = Round

\* patch_prompt: the loop, with its storage.get_collection
patch_prompt_get_collection(t) ==
    LET th == threads[t] IN
    /\ At(t, "patch_prompt_get_collection")
    /\ threads' = [threads EXCEPT ![t] =
            IF PatchRaises(th.body, collections) THEN Finished(th, 400)
            ELSE [th EXCEPT !.pc = "patch_prompt_update"]]
    /\ UNCHANGED <<prompts, collections, now, freshP, freshC, last>>

\* patch_prompt: Prompt(**update_data), update_data being the prompt read at the
\* start with the body's fields over it, and storage.update_prompt
patch_prompt_update(t) ==
    LET th == threads[t]
        update_data == PatchMerge(Val(th.existing), th.body)
        r == Storage_update_prompt(prompts, th.id,
                                   [update_data EXCEPT !.updated_at = now])
    IN /\ At(t, "patch_prompt_update")
       /\ prompts' = r.store
       /\ threads' = [threads EXCEPT ![t] =
               Finished(th, IF r.result = None THEN 500 ELSE 200)]
       /\ UNCHANGED <<collections, now, freshP, freshC, last>>

\* delete_prompt: its one call, storage.delete_prompt
delete_prompt_delete(t, prompt_id) ==
    LET r == Storage_delete_prompt(prompts, prompt_id) IN
    /\ Free(t)
    /\ prompts' = r.store
    /\ threads' = [threads EXCEPT ![t] =
            Finished(Started("delete_prompt", prompt_id, NoBody),
                     IF r.result THEN 204 ELSE 404)]
    /\ UNCHANGED <<collections, now, freshP, freshC>>
    /\ last' = Round

\* create_collection: its one call, storage.create_collection
create_collection_create(t, collection_data) ==
    LET th == Started("create_collection", NoId, collection_data)
        collection == Collection(generate_id(freshC), collection_data.name,
                                 collection_data.description, now)
    IN /\ Free(t)
       /\ freshC # <<>>
       /\ IF ~ValidCollectionBase(collection_data)
          THEN /\ threads' = [threads EXCEPT ![t] = Finished(th, 422)]
               /\ UNCHANGED <<collections, freshC>>
          ELSE /\ collections' = Storage_create_collection(collections, collection)
               /\ freshC' = Tail(freshC)
               /\ threads' = [threads EXCEPT ![t] =
                       Finished([th EXCEPT !.id = collection.id], 201)]
       /\ UNCHANGED <<prompts, now, freshP>>
       /\ last' = Round

\* delete_collection up to storage.get_prompts_by_collection
delete_collection_get_prompts(t, collection_id) ==
    LET th == Started("delete_collection", collection_id, NoBody) IN
    /\ Free(t)
    /\ threads' = [threads EXCEPT ![t] =
            [th EXCEPT !.listed = Storage_get_prompts_by_collection(prompts, collection_id),
                       !.pc = "delete_collection_loop"]]
    /\ UNCHANGED <<prompts, collections, now, freshP, freshC>>
    /\ last' = Round

\* delete_collection: one turn of the loop, storage.delete_prompt
delete_collection_delete_prompt(t) ==
    LET th == threads[t] IN
    /\ At(t, "delete_collection_loop")
    /\ th.listed # <<>>
    /\ prompts' = Storage_delete_prompt(prompts, Head(th.listed).id).store
    /\ threads' = [threads EXCEPT ![t] = [th EXCEPT !.listed = Tail(th.listed)]]
    /\ UNCHANGED <<collections, now, freshP, freshC, last>>

\* delete_collection: storage.delete_collection, the loop being over
delete_collection_delete(t) ==
    LET th == threads[t]
        r == Storage_delete_collection(collections, th.id)
    IN /\ At(t, "delete_collection_loop")
       /\ th.listed = <<>>
       /\ collections' = r.store
       /\ threads' = [threads EXCEPT ![t] = Finished(th, IF r.result THEN 204 ELSE 404)]
       /\ UNCHANGED <<prompts, now, freshP, freshC, last>>

\* the responses are sent: the round is over
threads_respond ==
    /\ \E t \in Threads : At(t, "done")
    /\ \A t \in Threads : At(t, "idle") \/ At(t, "done")
    /\ threads' = NoThreads
    /\ last' = Idle
    /\ UNCHANGED <<prompts, collections, now, freshP, freshC>>

\* ------------------------------------------------------------ input sets
IdPoolP == <<"p1", "p2", "p3", "p4">>
IdPoolC == <<"c1", "c2", "c3", "c4">>
Titles == {<<"A">>, <<"b">>}
Contents == {<<"x">>, <<"y">>}
Descriptions == {None, Some(EmptyText), Some(<<"d">>)}
Names == {<<"n">>}
\* what a client may send as collection_id, the ids being cids
CollectionRefs(cids) == {None, Some("")} \cup {Some(c) : c \in cids}
\* PATCH bodies: fields_set is the set of fields present in the body, a field
\* that is absent has its default None
PatchBodies(fieldsets, titles, contents, descriptions, refs) ==
    {b \in [fields_set : fieldsets, title : titles, content : contents,
            description : descriptions, collection_id : refs] :
        /\ ("title" \notin b.fields_set => b.title = None)
        /\ ("content" \notin b.fields_set => b.content = None)
        /\ ("description" \notin b.fields_set => b.description = None)
        /\ ("collection_id" \notin b.fields_set => b.collection_id = None)}

\* --------------------------------------------- Spec: the store and its references
\* every handler, over prompts that differ in their collection_id alone, the
\* requests of a run arriving at one instant of the clock
PromptIds == {IdPoolP[i] : i \in 1..MaxPrompts}
CollectionIds == {IdPoolC[i] : i \in 1..MaxCollections}
PromptBodies ==
    [title : {<<"A">>}, content : {<<"x">>}, description : {None},
     collection_id : CollectionRefs(CollectionIds)]
PromptPatches ==
    PatchBodies({{}, {"collection_id"}, {"title", "collection_id"}},
                {None, Some(<<"b">>)}, {None}, {None}, CollectionRefs(CollectionIds))
CollectionBodies == [name : Names \cup {EmptyText}, description : {None}]

Init ==
    /\ prompts = <<>>
    /\ collections = <<>>
    /\ now = 0
    /\ freshP = SubSeq(IdPoolP, 1, MaxPrompts)
    /\ freshC = SubSeq(IdPoolC, 1, MaxCollections)
    /\ last = Idle
    /\ threads = NoThreads

Next ==
    \/ \E id \in PromptIds : get_prompt(id)
    \/ \E b \in PromptBodies : create_prompt(b, now)
    \/ \E id \in PromptIds, b \in PromptBodies : update_prompt(id, b)
    \/ \E id \in PromptIds, b \in PromptPatches : patch_prompt(id, b)
    \/ \E id \in PromptIds : delete_prompt(id)
    \/ \E id \in CollectionIds : get_collection(id)
    \/ \E b \in CollectionBodies : create_collection(b)
    \/ \E id \in CollectionIds : delete_collection(id)
    \/ respond

Spec == Init /\ [][Next]_vars

\* ------------------------------------- SpecMerge: update and patch of one prompt
\* every handler, over bodies that differ in every field, the clock advancing
MergePromptIds == {IdPoolP[i] : i \in 1..MaxMergePrompts}
MergeCollectionIds == {IdPoolC[i] : i \in 1..MaxMergeCollections}
MergePromptBodies ==
    [title : Titles \cup {EmptyText}, content : Contents, description : Descriptions,
     collection_id : CollectionRefs(MergeCollectionIds)]
MergePromptPatches ==
    PatchBodies(SUBSET PatchFields,
                {None} \cup {Some(t) : t \in Titles \cup {EmptyText}},
                {None} \cup {Some(c) : c \in Contents \cup {EmptyText}},
                Descriptions, CollectionRefs(MergeCollectionIds))

InitMerge ==
    /\ prompts = <<>>
    /\ collections = <<>>
    /\ now = 0
    /\ freshP = SubSeq(IdPoolP, 1, MaxMergePrompts)
    /\ freshC = SubSeq(IdPoolC, 1, MaxMergeCollections)
    /\ last = Idle
    /\ threads = NoThreads

NextMerge ==
    \/ \E id \in MergePromptIds : get_prompt(id)
    \/ \E b \in MergePromptBodies, t2 \in 0..MaxTime : create_prompt(b, t2)
    \/ \E id \in MergePromptIds, b \in MergePromptBodies : update_prompt(id, b)
    \/ \E id \in MergePromptIds, b \in MergePromptPatches : patch_prompt(id, b)
    \/ \E id \in MergePromptIds : delete_prompt(id)
    \/ \E id \in MergeCollectionIds : get_collection(id)
    \/ \E b \in CollectionBodies : create_collection(b)
    \/ \E id \in MergeCollectionIds : delete_collection(id)
    \/ respond
    \/ tick

SpecMerge == InitMerge /\ [][NextMerge]_vars

\* ------------------------------------------------- SpecList: the two listings
\* prompts that differ in title, description, collection and created_at, and
\* every listing of them
ListPromptIds == {IdPoolP[i] : i \in 1..MaxListPrompts}
ListCollectionIds == {IdPoolC[i] : i \in 1..MaxListCollections}
ListTitles == {<<"A">>, <<"a", "b">>}
ListDescriptions == {None, Some(<<"B">>)}
ListPromptBodies ==
    [title : ListTitles, content : {<<"x">>}, description : ListDescriptions,
     collection_id : {None} \cup {Some(c) : c \in ListCollectionIds}]
ListCollectionBodies == [name : Names, description : {None}]
\* the search parameter: absent, empty, or a text
Queries == {<<>>, <<"a">>, <<"B">>, <<"a", "B">>, <<"b", "a">>}
ListSearches == {None} \cup {Some(q) : q \in Queries}

InitList ==
    /\ prompts = <<>>
    /\ collections = <<>>
    /\ now = 0
    /\ freshP = SubSeq(IdPoolP, 1, MaxListPrompts)
    /\ freshC = SubSeq(IdPoolC, 1, MaxListCollections)
    /\ last = Idle
    /\ threads = NoThreads

NextList ==
    \/ \E c \in CollectionRefs(ListCollectionIds), q \in ListSearches : list_prompts(c, q)
    \/ list_collections
    \/ \E b \in ListPromptBodies : create_prompt(b, now)
    \/ \E b \in ListCollectionBodies : create_collection(b)
    \/ respond
    \/ tick

SpecList == InitList /\ [][NextList]_vars

\* ----------------------------------------- SpecUtils: the functions of utils
\* a caller holds a list of prompts and calls sort_prompts_by_date or
\* search_prompts on it
UtilDescriptions == {None, Some(EmptyText), Some(<<"B">>)}
\* the list whose i-th prompt has the i-th id and the title, description and
\* created_at that shape gives it
UtilList(shape) ==
    [i \in 1..Len(shape) |->
        Prompt(IdPoolP[i], shape[i].title, <<"x">>, shape[i].description, None,
               shape[i].created_at, shape[i].created_at)]
UtilLists ==
    {UtilList(shape) :
        shape \in UNION {[1..n -> [title : ListTitles, description : UtilDescriptions,
                                   created_at : 0..MaxTime]] : n \in 0..MaxListLen}}
\* the list is held, no function has been called
Pending(l) == [op |-> "pending", status |-> 0, id |-> NoId, body |-> l, before |-> NoBody]
\* the function has returned: its arguments and what it returned
Returned(op, args, result) ==
    [op |-> op, status |-> 0, id |-> NoId, body |-> args, result |-> result,
     before |-> NoBody]

call_sort_prompts_by_date(descending) ==
    /\ last.op = "pending"
    /\ UNCHANGED threads
    /\ last' = Returned("sort_prompts_by_date",
                        [prompts |-> last.body, descending |-> descending],
                        sort_prompts_by_date(last.body, descending))
    /\ UNCHANGED <<prompts, collections, now, freshP, freshC>>

call_search_prompts(query) ==
    /\ last.op = "pending"
    /\ UNCHANGED threads
    /\ last' = Returned("search_prompts", [prompts |-> last.body, query |-> query],
                        search_prompts(last.body, query))
    /\ UNCHANGED <<prompts, collections, now, freshP, freshC>>

InitUtils ==
    /\ prompts = <<>>
    /\ collections = <<>>
    /\ now = 0
    /\ freshP = <<>>
    /\ freshC = <<>>
    /\ last \in {Pending(l) : l \in UtilLists}
    /\ threads = NoThreads

NextUtils ==
    \/ \E descending \in BOOLEAN : call_sort_prompts_by_date(descending)
    \/ \E query \in Queries : call_search_prompts(query)

SpecUtils == InitUtils /\ [][NextUtils]_vars

\* ------------------------------------- SpecConc: two handlers running at once
\* every handler that writes, one Storage call at a time, the requests of a
\* run arriving at one instant of the clock
ConcPromptIds == {IdPoolP[i] : i \in 1..MaxConcPrompts}
ConcCollectionIds == {IdPoolC[i] : i \in 1..MaxConcCollections}
ConcRefs == {None} \cup {Some(c) : c \in ConcCollectionIds}
ConcPromptBodies ==
    [title : {<<"A">>}, content : {<<"x">>}, description : {None}, collection_id : ConcRefs]
ConcPromptUpdates ==
    [title : {<<"b">>}, content : {<<"x">>}, description : {None}, collection_id : ConcRefs]
ConcPromptPatches ==
    PatchBodies({{"title"}, {"content"}, {"collection_id"}},
                {None, Some(<<"b">>)}, {None, Some(<<"y">>)}, {None}, ConcRefs)

InitConc ==
    /\ prompts = <<>>
    /\ collections = <<>>
    /\ now = 0
    /\ freshP = SubSeq(IdPoolP, 1, MaxConcPrompts)
    /\ freshC = SubSeq(IdPoolC, 1, MaxConcCollections)
    /\ last = Idle
    /\ threads = NoThreads

NextConc ==
    \/ \E t \in Threads :
        \/ \E b \in ConcPromptBodies : create_prompt_get_collection(t, b)
        \/ create_prompt_create(t)
        \/ \E id \in ConcPromptIds, b \in ConcPromptUpdates : update_prompt_get_prompt(t, id, b)
        \/ update_prompt_get_collection(t)
        \/ update_prompt_update(t)
        \/ \E id \in ConcPromptIds, b \in ConcPromptPatches : patch_prompt_get_prompt(t, id, b)
        \/ patch_prompt_get_collection(t)
        \/ patch_prompt_update(t)
        \/ \E id \in ConcPromptIds : delete_prompt_delete(t, id)
        \/ \E b \in ListCollectionBodies : create_collection_create(t, b)
        \/ \E id \in ConcCollectionIds : delete_collection_get_prompts(t, id)
        \/ delete_collection_delete_prompt(t)
        \/ delete_collection_delete(t)
    \/ threads_respond

SpecConc == InitConc /\ [][NextConc]_vars

\* ================================================================ claims
Before == last.before
\* the store is as the handler found it
StoreUnchanged == prompts = Before.prompts /\ collections = Before.collections
\* a collection_id that is non-empty and names no collection of cs
Dangling(collection_id, cs) == TruthyId(collection_id) /\ ~DictHas(cs, Val(collection_id))

\* C1: in every state reachable by serial API operations from the empty store,
\* every stored prompt whose collection_id is non-empty names a collection that
\* is in the store.
C1_ReferentialIntegrity ==
    \A i \in 1..Len(prompts) : ~Dangling(prompts[i].value.collection_id, collections)
\* a collection with a member prompt has just been deleted, and a prompt filed
\* under another collection is still stored
C1_Witness ==
    /\ last.op = "delete_collection" /\ last.status = 204
    /\ \E i \in 1..Len(Before.prompts) :
            Before.prompts[i].value.collection_id = Some(last.id)
    /\ \E i \in 1..Len(prompts) : TruthyId(prompts[i].value.collection_id)

\* C2: deleting an existing collection C removes exactly the prompts whose
\* collection_id equals C and the collection C; every other prompt and every
\* other collection stays as it was, in place; a get of a former member finds
\* nothing, and get_prompt answers 404 exactly for the ids the store lacks.
C2_Members == {i \in 1..Len(Before.prompts) :
                    Before.prompts[i].value.collection_id = Some(last.id)}
C2_CascadeExact ==
    /\ (last.op = "delete_collection" /\ DictHas(Before.collections, last.id)) =>
          /\ last.status = 204
          /\ \A i \in C2_Members :
                Storage_get_prompt(prompts, Before.prompts[i].key) = None
          /\ \A i \in (1..Len(Before.prompts)) \ C2_Members :
                Storage_get_prompt(prompts, Before.prompts[i].key)
                    = Some(Before.prompts[i].value)
          /\ Len(prompts) = Len(Before.prompts) - Cardinality(C2_Members)
          /\ ~DictHas(collections, last.id)
          /\ \A i \in 1..Len(Before.collections) :
                Before.collections[i].key # last.id =>
                    Storage_get_collection(collections, Before.collections[i].key)
                        = Some(Before.collections[i].value)
          /\ Len(collections) = Len(Before.collections) - 1
    /\ last.op = "get_prompt" =>
          (last.status = 404 <=> ~DictHas(Before.prompts, last.id))
\* a collection has just been deleted that had a member, beside a prompt
\* outside it and another collection
C2_Witness ==
    /\ last.op = "delete_collection" /\ last.status = 204
    /\ C2_Members # {}
    /\ Len(prompts) > 0
    /\ Len(collections) > 0

\* C5: create prompt (of a body the schema accepts) with a non-empty
\* collection_id that names no stored collection answers 400 and adds no
\* prompt; with an empty or absent collection_id, or one that names a stored
\* collection, it answers 201, adds exactly one prompt under a new id, holding
\* the body's fields, and changes nothing else.
C5_CreatePrompt ==
    (last.op = "create_prompt" /\ ValidPromptBase(last.body)) =>
        IF Dangling(last.body.collection_id, Before.collections)
        THEN last.status = 400 /\ StoreUnchanged
        ELSE /\ last.status = 201
             /\ Len(prompts) = Len(Before.prompts) + 1
             /\ SubSeq(prompts, 1, Len(Before.prompts)) = Before.prompts
             /\ ~DictHas(Before.prompts, last.id)
             /\ LET e == prompts[Len(prompts)] IN
                  /\ e.key = last.id /\ e.value.id = last.id
                  /\ e.value.title = last.body.title
                  /\ e.value.content = last.body.content
                  /\ e.value.description = last.body.description
                  /\ e.value.collection_id = last.body.collection_id
             /\ collections = Before.collections
\* a create was refused for its collection_id while a prompt was stored
C5_WitnessRefused ==
    /\ last.op = "create_prompt" /\ last.status = 400
    /\ Len(Before.prompts) > 0
\* a prompt filed under a stored collection was created beside another prompt
C5_Witness ==
    /\ last.op = "create_prompt" /\ last.status = 201
    /\ TruthyId(last.body.collection_id)
    /\ Len(Before.prompts) > 0

\* C6: get, update, patch and delete of a prompt id the store lacks, and get
\* and delete of a collection id the store lacks, answer 404, and no answer of
\* 404 comes with a change of either map; so delete collection of a missing
\* id deletes no prompt.
C6_NotFoundNoMutation ==
    /\ last.status = 404 => StoreUnchanged
    /\ (last.op \in {"get_prompt", "delete_prompt"}
            /\ ~DictHas(Before.prompts, last.id)) => last.status = 404
    /\ (last.op = "update_prompt" /\ ValidPromptBase(last.body)
            /\ ~DictHas(Before.prompts, last.id)) => last.status = 404
    /\ (last.op = "patch_prompt" /\ ValidPromptPatch(last.body)
            /\ ~DictHas(Before.prompts, last.id)) => last.status = 404
    /\ (last.op \in {"get_collection", "delete_collection"}
            /\ ~DictHas(Before.collections, last.id)) => last.status = 404
\* delete collection of a missing id was answered while prompts filed under a
\* collection were stored
C6_Witness ==
    /\ last.op = "delete_collection" /\ last.status = 404
    /\ \E i \in 1..Len(prompts) : TruthyId(prompts[i].value.collection_id)

\* ------------------------------------------------ update and patch (SpecMerge)
\* the prompt the request names, as the handler found it and as it is now
Old == Val(DictGet(Before.prompts, last.id))
New == Val(DictGet(prompts, last.id))
Existed == DictHas(Before.prompts, last.id)
\* the body sets field f to the empty string
SetsEmpty(f) == f \in last.body.fields_set /\ last.body[f] = Some(EmptyText)
\* the body sets field f to a string that is not empty
SetsText(f) ==
    f \in last.body.fields_set /\ last.body[f] # None /\ last.body[f] # Some(EmptyText)
\* the body sets a collection_id that names no stored collection
PatchDangles ==
    "collection_id" \in last.body.fields_set
        /\ Dangling(last.body.collection_id, Before.collections)

\* C3: a patch of an existing prompt whose collection_id is non-empty and names
\* no stored collection answers 400 (the body being one the schema accepts) and
\* leaves the stored prompt as it was in every field, updated_at included, and
\* the rest of the store with it, whatever else the body sets.
C3_PatchAllOrNothing ==
    (last.op = "patch_prompt" /\ Existed /\ PatchDangles) =>
        /\ StoreUnchanged
        /\ New = Old
        /\ ValidPromptPatch(last.body) => last.status = 400
\* such a patch, which also set a new title and a new description, was refused
\* at an instant later than the prompt's updated_at
C3_Witness ==
    /\ last.op = "patch_prompt" /\ last.status = 400 /\ Existed
    /\ SetsText("title") /\ Val(last.body.title) # Old.title
    /\ SetsText("description") /\ last.body.description # Old.description
    /\ Old.updated_at < Before.now

\* C4: a full update of an existing prompt whose collection_id is non-empty and
\* names no stored collection answers 400 (the body being one the schema
\* accepts) and applies nothing: the stored prompt, updated_at included, and
\* the rest of the store are as they were.
C4_UpdateRefused ==
    (last.op = "update_prompt" /\ Existed
        /\ Dangling(last.body.collection_id, Before.collections)) =>
        /\ StoreUnchanged
        /\ New = Old
        /\ ValidPromptBase(last.body) => last.status = 400
\* such an update, which carried a new title, was refused at an instant later
\* than the prompt's updated_at
C4_Witness ==
    /\ last.op = "update_prompt" /\ last.status = 400 /\ Existed
    /\ last.body.title # Old.title
    /\ Old.updated_at < Before.now

\* C7 as stated: a patch of an existing prompt (its collection_id, if set,
\* resolving) that supplies the empty string for title, content or description
\* leaves that field as it was and refreshes updated_at to the current time.
C7_AsStated ==
    (last.op = "patch_prompt" /\ Existed /\ ~PatchDangles) =>
        \A f \in {"title", "content", "description"} :
            SetsEmpty(f) => (New[f] = Old[f] /\ New.updated_at = Before.now)
\* C7, amended: of the patches of an existing prompt whose collection_id, if
\* set, resolves, one that supplies the empty string for title or content is
\* refused by the schema with 422 and changes nothing, updated_at included;
\* one the schema accepts answers 200 and refreshes updated_at to the current
\* time, also when it changes no field, and if it supplies the empty string
\* for description it leaves description as it was.
C7_PatchEmptyString ==
    (last.op = "patch_prompt" /\ Existed /\ ~PatchDangles) =>
        /\ (SetsEmpty("title") \/ SetsEmpty("content")) =>
                (last.status = 422 /\ StoreUnchanged)
        /\ ValidPromptPatch(last.body) =>
                /\ last.status = 200
                /\ New.updated_at = Before.now
                /\ SetsEmpty("description") => New.description = Old.description
\* a patch that set only description, to the empty string, was applied to a
\* prompt with a description, at an instant later than its updated_at
C7_Witness ==
    /\ last.op = "patch_prompt" /\ last.status = 200
    /\ last.body.fields_set = {"description"} /\ SetsEmpty("description")
    /\ Old.description = Some(<<"d">>)
    /\ Old.updated_at < Before.now /\ New.updated_at = Before.now

\* C8: after a successful patch, each of title, content and description that
\* the body set to a non-empty string holds that string, and each of title,
\* content, description and collection_id that the body does not mention holds
\* what it held before.
C8_PatchMerge ==
    (last.op = "patch_prompt" /\ last.status = 200) =>
        /\ \A f \in {"title", "content"} : SetsText(f) => New[f] = Val(last.body[f])
        /\ SetsText("description") => New.description = last.body.description
        /\ \A f \in PatchFields \ last.body.fields_set : New[f] = Old[f]
\* a patch that set a new title and a new content, and nothing else, was applied
\* to a prompt that has a description and a collection
C8_Witness ==
    /\ last.op = "patch_prompt" /\ last.status = 200
    /\ last.body.fields_set = {"title", "content"}
    /\ SetsText("title") /\ Val(last.body.title) # Old.title
    /\ SetsText("content") /\ Val(last.body.content) # Old.content
    /\ Old.description = Some(<<"d">>) /\ TruthyId(Old.collection_id)

\* C9: a patch (of a body the schema accepts) of an existing prompt that sets
\* collection_id to null or to the empty string answers 200 and leaves the
\* prompt's collection_id as it was; one that sets it to the id of a stored
\* collection answers 200 and files the prompt there; and no successful patch
\* takes a prompt out of its collection.
C9_PatchCollectionId ==
    /\ (last.op = "patch_prompt" /\ Existed /\ ValidPromptPatch(last.body)
            /\ "collection_id" \in last.body.fields_set /\ ~PatchDangles) =>
          /\ last.status = 200
          /\ New.collection_id = IF TruthyId(last.body.collection_id)
                                 THEN last.body.collection_id ELSE Old.collection_id
    /\ (last.op = "patch_prompt" /\ last.status = 200 /\ TruthyId(Old.collection_id)) =>
          TruthyId(New.collection_id)
\* a patch that set collection_id to the empty string was applied to a prompt
\* filed under a collection
C9_Witness ==
    /\ last.op = "patch_prompt" /\ last.status = 200
    /\ "collection_id" \in last.body.fields_set
    /\ last.body.collection_id = Some("")
    /\ TruthyId(Old.collection_id)
\* a patch that set collection_id to a stored collection was applied to a
\* prompt filed under none
C9_WitnessApplied ==
    /\ last.op = "patch_prompt" /\ last.status = 200
    /\ "collection_id" \in last.body.fields_set
    /\ TruthyId(last.body.collection_id)
    /\ Old.collection_id = None

\* C10: a full update (of a body the schema accepts) of an existing prompt
\* whose collection_id is empty or names a stored collection answers 200, and
\* then the prompt's title, content, description and collection_id are exactly
\* the body's: an absent or empty description or collection_id replaces the
\* stored one.
C10_UpdateReplaces ==
    /\ (last.op = "update_prompt" /\ Existed /\ ValidPromptBase(last.body)
            /\ ~Dangling(last.body.collection_id, Before.collections)) =>
          last.status = 200
    /\ (last.op = "update_prompt" /\ last.status = 200) =>
          /\ New.title = last.body.title
          /\ New.content = last.body.content
          /\ New.description = last.body.description
          /\ New.collection_id = last.body.collection_id
\* an update without description and collection_id was applied to a prompt that
\* had a description and a collection
C10_Witness ==
    /\ last.op = "update_prompt" /\ last.status = 200
    /\ last.body.description = None /\ last.body.collection_id = None
    /\ Old.description = Some(<<"d">>) /\ TruthyId(Old.collection_id)
    /\ last.body.title # Old.title /\ last.body.content # Old.content

\* --------------------------------------------------- timestamps (SpecMerge)
\* the keys stored both when the handler began and now
Kept == {k \in {Before.prompts[i].key : i \in 1..Len(Before.prompts)} : DictHas(prompts, k)}
WasPrompt(k) == Val(DictGet(Before.prompts, k))
IsPrompt(k) == Val(DictGet(prompts, k))
Answered == ~IsIdle

\* C11: the prompt stored under a key has that key as its id, and no request,
\* whether it succeeds or is refused, changes the id or the created_at of a
\* prompt that stays stored; in particular no update and no patch does.
C11_IdCreatedAtImmutable ==
    /\ \A i \in 1..Len(prompts) : prompts[i].value.id = prompts[i].key
    /\ Answered =>
          \A k \in Kept : /\ IsPrompt(k).id = WasPrompt(k).id
                          /\ IsPrompt(k).created_at = WasPrompt(k).created_at
\* an update that changed title and content was applied at an instant later
\* than the prompt's created_at
C11_Witness ==
    /\ last.op = "update_prompt" /\ last.status = 200
    /\ New.title # Old.title /\ New.content # Old.content
    /\ Old.created_at < Before.now
    /\ New.updated_at = Before.now

\* C12: the clock never running backwards, an update or a patch leaves the
\* prompt with an updated_at that is no earlier than the one it had, whether
\* the request succeeds or is refused.
C12_UpdatedAtMonotonic ==
    (last.op \in {"update_prompt", "patch_prompt"} /\ Existed) =>
        /\ DictHas(prompts, last.id)
        /\ New.updated_at >= Old.updated_at
        /\ last.status = 200 => New.updated_at = Before.now
\* a patch was applied to a prompt whose updated_at was later than its
\* created_at, at an instant later still or equal
C12_Witness ==
    /\ last.op = "patch_prompt" /\ last.status = 200
    /\ Old.created_at < Old.updated_at
    /\ New.updated_at >= Old.updated_at

\* C13: the clock never running backwards, every stored prompt has
\* updated_at >= created_at, the prompt just created included, whose two
\* timestamps come from two readings of the clock.
C13_UpdatedAfterCreated ==
    \A i \in 1..Len(prompts) : prompts[i].value.updated_at >= prompts[i].value.created_at
\* a prompt has just been created whose two readings of the clock differ
C13_Witness ==
    /\ last.op = "create_prompt" /\ last.status = 201
    /\ New.created_at = Before.now
    /\ New.updated_at > New.created_at

\* ------------------------------------------------------- listing (SpecList)
\* the letters a text is made of, a letter and its other case being the same
SameLetter(a, b) == a = b \/ {a, b} \in {{"A", "a"}, {"B", "b"}}
\* text holds q as a substring, ignoring case
ContainsIgnoringCase(text, q) ==
    \E off \in 0..(Len(text) - Len(q)) :
        \A j \in 1..Len(q) : SameLetter(text[off + j], q[j])
\* title or description (if there is one) holds q, ignoring case
MatchesQuery(p, q) ==
    \/ ContainsIgnoringCase(p.title, q)
    \/ (p.description # None /\ ContainsIgnoringCase(Val(p.description), q))
\* p passes the filters of the listing request just answered
Listed(p) ==
    /\ TruthyId(last.body.collection_id) => p.collection_id = last.body.collection_id
    /\ TruthyText(last.body.search) => MatchesQuery(p, Val(last.body.search))
\* l holds exactly the elements of src that pass keep, each as often as src does
ExactlyThose(l, src, keep(_)) ==
    /\ \A i \in 1..Len(l) : keep(l[i]) /\ \E j \in 1..Len(src) : src[j] = l[i]
    /\ \A j \in 1..Len(src) : keep(src[j]) =>
            Cardinality({i \in 1..Len(l) : l[i] = src[j]})
                = Cardinality({i \in 1..Len(src) : src[i] = src[j]})
    /\ Len(l) = Cardinality({j \in 1..Len(src) : keep(src[j])})

\* C14: a listing of prompts returns exactly the stored prompts that are filed
\* under the collection asked for (if a non-empty one is asked for) and match
\* the search query (if a non-empty one is given), newest created_at first;
\* total is the number of prompts returned; with neither filter every stored
\* prompt is returned; and the store is as it was.
C14_ListPrompts ==
    last.op = "list_prompts" =>
        LET l == last.result.prompts IN
        /\ ExactlyThose(l, DictValues(Before.prompts), Listed)
        /\ \A i, j \in 1..Len(l) : i < j => l[i].created_at >= l[j].created_at
        /\ last.result.total = Len(l)
        /\ (~TruthyId(last.body.collection_id) /\ ~TruthyText(last.body.search)) =>
                Len(l) = Len(Before.prompts)
        /\ StoreUnchanged
\* a listing with both filters returned two prompts created at different
\* instants and left out a third
C14_Witness ==
    /\ last.op = "list_prompts"
    /\ TruthyId(last.body.collection_id) /\ TruthyText(last.body.search)
    /\ Len(Before.prompts) = 3
    /\ last.result.total = 2
    /\ last.result.prompts[1].created_at > last.result.prompts[2].created_at

\* ------------------------------------------------------- utils (SpecUtils)
\* where e stands in l
Pos(l, e) == CHOOSE k \in 1..Len(l) : l[k] = e
AnyPrompt(p) == TRUE
\* l keeps its elements in the order src has them
InOrderOf(l, src) == \A a, b \in 1..Len(l) : a < b => Pos(src, l[a]) < Pos(src, l[b])

\* C15: what sort_prompts_by_date returns is a permutation of its input, with
\* created_at never increasing along it if descending and never decreasing if
\* ascending, and, in both directions, two prompts of equal created_at stand
\* in it in the order the input has them.
C15_SortStable ==
    last.op = "sort_prompts_by_date" =>
        LET l == last.body.prompts
            r == last.result
        IN /\ ExactlyThose(r, l, AnyPrompt)
           /\ \A i, j \in 1..Len(r) : i < j =>
                  IF last.body.descending
                  THEN r[i].created_at >= r[j].created_at
                  ELSE r[i].created_at <= r[j].created_at
           /\ \A i, j \in 1..Len(l) :
                  (i < j /\ l[i].created_at = l[j].created_at) =>
                      Pos(r, l[i]) < Pos(r, l[j])
\* a descending sort moved a later prompt ahead of two that share a created_at
C15_Witness ==
    /\ last.op = "sort_prompts_by_date" /\ last.body.descending
    /\ Len(last.body.prompts) = 3
    /\ last.body.prompts[1].created_at = last.body.prompts[2].created_at
    /\ last.body.prompts[3].created_at > last.body.prompts[1].created_at
    /\ last.result[1] = last.body.prompts[3]

\* C16: what search_prompts returns holds, in the order of the input, exactly
\* the prompts whose title holds the query ignoring case or whose description
\* is there and holds it ignoring case; a prompt without description is
\* judged by its title alone.
C16_Search ==
    last.op = "search_prompts" =>
        LET l == last.body.prompts
            r == last.result
            Matches(p) == MatchesQuery(p, last.body.query)
        IN /\ ExactlyThose(r, l, Matches)
           /\ InOrderOf(r, l)
           /\ \A i \in 1..Len(l) : l[i].description = None =>
                  ((\E k \in 1..Len(r) : r[k] = l[i])
                        <=> ContainsIgnoringCase(l[i].title, last.body.query))
\* a search in another case than the texts' returned a prompt for its title,
\* one for its description, and left out a prompt without description
C16_Witness ==
    /\ last.op = "search_prompts" /\ last.body.query = <<"B">>
    /\ Len(last.body.prompts) = 3 /\ Len(last.result) = 2
    /\ last.result[1].title = <<"a", "b">> /\ last.result[1].description = None
    /\ last.result[2].title = <<"A">> /\ last.result[2].description = Some(<<"B">>)
    /\ \E i \in 1..3 : /\ last.body.prompts[i].description = None
                       /\ last.body.prompts[i].title = <<"A">>

\* C17: search_prompts with the empty query returns its input as it is: every
\* prompt, once, in the same order, those without description included.
C17_SearchEmptyIdentity ==
    (last.op = "search_prompts" /\ last.body.query = <<>>) =>
        last.result = last.body.prompts
\* the empty query was searched in a list of three prompts, one without
\* description and one whose description is empty
C17_Witness ==
    /\ last.op = "search_prompts" /\ last.body.query = <<>>
    /\ Len(last.result) = 3
    /\ \E i \in 1..3 : last.body.prompts[i].description = None
    /\ \E i \in 1..3 : last.body.prompts[i].description = Some(EmptyText)

\* ------------------------------------------------------------ ids (Spec)
\* how many entries of dict d hold an entity whose id is id
Holders(d, id) == Cardinality({i \in 1..Len(d) : d[i].value.id = id})

\* C18: the id a create of a prompt or of a collection returns is not empty
\* and was the id of no stored entity of that type; the create overwrites no
\* entry, it adds one, so the entities of that type are one more than before
\* and exactly one of them has the id.
C18_FreshIds ==
    /\ (last.op = "create_prompt" /\ last.status = 201) =>
          /\ last.id # ""
          /\ Holders(Before.prompts, last.id) = 0 /\ ~DictHas(Before.prompts, last.id)
          /\ Len(prompts) = Len(Before.prompts) + 1
          /\ SubSeq(prompts, 1, Len(Before.prompts)) = Before.prompts
          /\ Holders(prompts, last.id) = 1
    /\ (last.op = "create_collection" /\ last.status = 201) =>
          /\ last.id # ""
          /\ Holders(Before.collections, last.id) = 0
          /\ ~DictHas(Before.collections, last.id)
          /\ Len(collections) = Len(Before.collections) + 1
          /\ SubSeq(collections, 1, Len(Before.collections)) = Before.collections
          /\ Holders(collections, last.id) = 1
\* a second collection has just been created, a prompt and a collection being
\* stored
C18_Witness ==
    /\ last.op = "create_collection" /\ last.status = 201
    /\ Len(Before.collections) = 1 /\ Len(collections) = 2
    /\ Len(prompts) > 0

\* ------------------------------------------------- concurrency (SpecConc)
\* every handler of the round has returned or raised
RoundOver ==
    /\ \E t \in Threads : At(t, "done")
    /\ \A t \in Threads : At(t, "idle") \/ At(t, "done")

\* C19, as stated: two handlers interleaving between their Storage calls, once
\* a delete of collection C and the handlers that ran beside it have returned,
\* if C is not stored then no stored prompt has collection_id = C.
C19_AsStated ==
    RoundOver =>
        \A t \in Threads :
            (threads[t].op = "delete_collection" /\ ~DictHas(collections, threads[t].id)) =>
                \A i \in 1..Len(prompts) :
                    prompts[i].value.collection_id # Some(threads[t].id)

\* what the handler of thread th, run alone, leaves of prompt p
AloneOn(th, p) ==
    IF th.op = "update_prompt"
    THEN IF ~ValidPromptBase(th.body) \/ CollectionMissing(Before.collections, th.body.collection_id)
         THEN p ELSE UpdatedPrompt(p, th.body, Before.now)
    ELSE IF ~ValidPromptPatch(th.body) \/ PatchRaises(th.body, Before.collections)
         THEN p ELSE [PatchMerge(p, th.body) EXCEPT !.updated_at = Before.now]

\* C20, as stated: when two update or patch handlers have run at once on one
\* stored prompt, interleaving between their Storage calls, the prompt is left
\* as one of the two orders of running them one after the other leaves it.
C20_AsStated ==
    \A a, b \in Threads :
        (/\ RoundOver /\ a # b
         /\ threads[a].op \in {"update_prompt", "patch_prompt"}
         /\ threads[b].op \in {"update_prompt", "patch_prompt"}
         /\ threads[a].id = threads[b].id
         /\ DictHas(Before.prompts, threads[a].id)) =>
            LET P0 == Val(DictGet(Before.prompts, threads[a].id))
            IN DictGet(prompts, threads[a].id)
                    \in {Some(AloneOn(threads[b], AloneOn(threads[a], P0))),
                         Some(AloneOn(threads[a], AloneOn(threads[b], P0)))}

\* thread t takes the step of update_prompt or patch_prompt that calls
\* storage.update_prompt, or the step of create_prompt that calls
\* storage.create_prompt
CallsUpdate(t) ==
    (At(t, "update_prompt_update") \/ At(t, "patch_prompt_update")) /\ threads'[t].pc = "done"
CallsCreate(t) == At(t, "create_prompt_create") /\ threads'[t].pc = "done"
\* thread a ran update or patch and read its prompt; thread b deleted that
\* prompt, by delete_prompt, or ran delete_collection while a's write found
\* the prompt gone
DeletedUnder(a, b) ==
    /\ threads[a].op \in {"update_prompt", "patch_prompt"}
    /\ threads[a].existing # None
    /\ \/ /\ threads[b].op = "delete_prompt"
          /\ threads[b].id = threads[a].id /\ threads[b].status = 204
       \/ /\ threads[b].op = "delete_collection"
          /\ threads[a].status = 500

\* C21: storage.update_prompt never inserts.  The step of update or patch that
\* calls it for an id that is not stored leaves both maps as they are and gets
\* None (the handler then has no Prompt to answer with); for an id that is
\* stored it replaces that entry's value and nothing else.  A key comes into
\* the prompts only by the storage.create_prompt of a create, under the new id.
\* So when a delete of prompt P, by delete_prompt or by the cascade of
\* delete_collection, runs beside an update or patch that has read P, P is not
\* stored once the handlers have returned.
C21_UpdateNeverInserts ==
    /\ [][/\ \A t \in Threads :
                CallsUpdate(t) =>
                    /\ collections' = collections
                    /\ IF DictHas(prompts, threads[t].id)
                       THEN /\ threads'[t].status = 200
                            /\ Len(prompts') = Len(prompts)
                            /\ \A i \in 1..Len(prompts) :
                                  /\ prompts'[i].key = prompts[i].key
                                  /\ prompts[i].key # threads[t].id => prompts'[i] = prompts[i]
                       ELSE /\ threads'[t].status = 500
                            /\ prompts' = prompts
          /\ \A i \in 1..Len(prompts') :
                ~DictHas(prompts, prompts'[i].key) =>
                    \E t \in Threads : CallsCreate(t) /\ threads'[t].id = prompts'[i].key
         ]_vars
    /\ [](RoundOver =>
            \A a, b \in Threads : DeletedUnder(a, b) => ~DictHas(prompts, threads[a].id))
\* a patch read its prompt, the cascade of delete_collection deleted the
\* prompt, the patch's storage.update_prompt then found no such id, and both
\* handlers have returned: the prompt is not stored
C21_Witness ==
    /\ RoundOver
    /\ \E a, b \in Threads :
          /\ threads[a].op = "patch_prompt" /\ threads[a].existing # None
          /\ threads[a].status = 500
          /\ threads[b].op = "delete_collection" /\ threads[b].status = 204
          /\ DictHas(Before.prompts, threads[a].id)
          /\ ~DictHas(prompts, threads[a].id)

====
